---- MODULE Spec2Model ----
(***************************************************************************)
(* A model of signalstory's Store (packages/signalstory/src/lib/store.ts): *)
(* the state signal, the optional command history, the local-storage sync  *)
(* effect, the mediator shared by all stores, effects and queries.         *)
(*                                                                         *)
(* StoreHistory, Mediator and the store-persistence functions are imported *)
(* by store.ts but their files are not part of the sources at hand; they   *)
(* are modelled from the design document (sections 4.2, 4.3, 4.5).         *)
(***************************************************************************)
EXTENDS Integers, Sequences, FiniteSets, TLC

\* ------------------------------------------------------------------ bounds
MaxNum == 2      \* numbers of the state type range over 0..MaxNum
MaxHist == 2     \* commands recorded per store before the model stops adding
MaxPub == 2      \* publications per event
MaxSyncHist == 1 \* commands recorded by the store that also synchronises
MaxRegs == 2     \* handlers registered with the mediator

\* ------------------------------------------------------------------ values
\* A value of TState: a number, null, or a reference to a heap object that
\* holds one number.  The object case is what mutate() changes in place.
Null == [k |-> "null", v |-> 0]
Num(n) == [k |-> "num", v |-> n]
Obj(r) == [k |-> "obj", v |-> r]

Stores == {1, 2}
Refs == 1..(MaxHist + 3)
Free == -1

\* What a caller passes as a state is described by content: an object input
\* Obj(v) is a freshly built object holding the number v.

\* JavaScript ToBoolean, as applied by `if (newState)`.
Truthy(x) == x.k = "obj" \/ (x.k = "num" /\ x.v # 0)

\* JavaScript `a ?? b`: b when a is null or undefined.
Nullish(present, x) == ~present \/ x.k = "null"

Top(seq) == seq[Len(seq)]

\* The observable content of a value under heap h (objects by structure).
ContentIn(h, x) == IF x.k = "obj" THEN Obj(h[x.v]) ELSE x

VARIABLES
  config,      \* per store: the resolved configuration, live once constructed
  state,       \* per store: the value held by the _state signal
  heap,        \* the objects states may refer to
  undoStack,   \* per store: StoreHistory's entries, oldest first
  redoStack,   \* per store: StoreHistory's undone entries
  storage,     \* local storage: per key, the JSON text stored
  effectDirty, \* per store: the persistence effect is scheduled to run
  trace,       \* per store: the side effects of its latest command, in order
  log,         \* the latest line written to the console
  expect,      \* per store: the contents seen just before each command not yet undone
  unsaved,     \* per store: state replacements since its effect last ran (2: two or more)
  covered,     \* per store: the replacements its latest write stood for
  mediators,   \* the Mediator instances created so far
  registrations, \* the mediator's registrations, with what each handler received
  ledger,      \* the mediator's record of published payloads, per event
  call,        \* the latest runEffect / runQuery: how it ended
  last         \* the latest call: what it was and what it started from

vars == <<config, state, heap, undoStack, redoStack, storage, effectDirty,
          trace, log, expect, unsaved, covered, mediators, registrations,
          ledger, call, last>>

busVars == <<mediators, registrations, ledger, call>>

Content(x) == ContentIn(heap, x)

NoName == "<undefined>"
StoreNames == {"counter", "other"}

Absent == [present |-> FALSE, json |-> Null]

\* The optional flags of a StoreConfig; one left out is false.
Flags(logging, history, sync, events, queries) ==
  [enableLogging |-> logging, enableStateHistory |-> history,
   enableLocalStorageSync |-> sync, enableEvents |-> events,
   enableEffectsAndQueries |-> queries]

NoFlags == Flags(FALSE, FALSE, FALSE, FALSE, FALSE)

NoConfig == [live |-> FALSE, name |-> "counter", initialState |-> Null,
             enableEvents |-> FALSE, enableEffectsAndQueries |-> FALSE,
             enableLogging |-> FALSE, enableStateHistory |-> FALSE,
             enableLocalStorageSync |-> FALSE]

\* A constructor that gives every store a history.
Config_HistoryOn(n, init, f) ==
  [live |-> TRUE, name |-> n, initialState |-> init,
   enableEvents |-> f.enableEvents,
   enableEffectsAndQueries |-> f.enableEffectsAndQueries,
   enableLogging |-> f.enableLogging,
   enableStateHistory |-> TRUE,
   enableLocalStorageSync |-> f.enableLocalStorageSync]

Config(n, init, f) ==
  [live |-> TRUE, name |-> n, initialState |-> init,
   enableEvents |-> f.enableEvents,
   enableEffectsAndQueries |-> f.enableEffectsAndQueries,
   enableLogging |-> f.enableLogging,
   enableStateHistory |-> f.enableStateHistory,
   enableLocalStorageSync |-> f.enableLocalStorageSync]

\* ------------------------------------------------------------------- heap
RECURSIVE StackRefs(_)
StackRefs(st) ==
  IF st = <<>> THEN {}
  ELSE (IF Head(st).before.k = "obj" THEN {Head(st).before.v} ELSE {})
       \cup StackRefs(Tail(st))

\* The references a program state still holds.
Roots(cf, st, us, rs) ==
  UNION {(IF st[s].k = "obj" THEN {st[s].v} ELSE {})
           \cup StackRefs(us[s]) \cup StackRefs(rs[s])
           \cup (IF cf[s].initialState.k = "obj" THEN {cf[s].initialState.v} ELSE {})
         : s \in Stores}

\* Objects nothing refers to are reclaimed.
Collect(h, roots) == [r \in Refs |-> IF r \in roots THEN h[r] ELSE Free]

FreshRef(h) == CHOOSE r \in Refs : h[r] = Free /\ \A q \in Refs : h[q] = Free => r <= q

CanAlloc(h) == \E r \in Refs : h[r] = Free

\* The value a caller's input denotes, and the heap holding it.
Materialize(h, in) ==
  IF in.k = "obj"
  THEN [val |-> Obj(FreshRef(h)), heap |-> [h EXCEPT ![FreshRef(h)] = in.v]]
  ELSE [val |-> in, heap |-> h]

\* ---------------------------------------------------------------- history
\* StoreHistory.add: push the state before the change, clear the redo stack.
HistoryAdd(us, rs, current, label) ==
  [undo |-> Append(us, [before |-> current, command |-> label]), redo |-> <<>>]

\* StoreHistory.undo: absent on an empty stack; else pop, push the current
\* state on the redo stack under the popped label, return the popped state.
HistoryUndo(us, rs, current) ==
  IF us = <<>>
  THEN [present |-> FALSE, value |-> Null, undo |-> us, redo |-> rs]
  ELSE [present |-> TRUE, value |-> us[Len(us)].before,
        undo |-> SubSeq(us, 1, Len(us) - 1),
        redo |-> Append(rs, [before |-> current, command |-> us[Len(us)].command])]

\* StoreHistory.redo: the mirror image of undo.
HistoryRedo(us, rs, current) ==
  IF rs = <<>>
  THEN [present |-> FALSE, value |-> Null, undo |-> us, redo |-> rs]
  ELSE [present |-> TRUE, value |-> rs[Len(rs)].before,
        undo |-> Append(us, [before |-> current, command |-> rs[Len(rs)].command]),
        redo |-> SubSeq(rs, 1, Len(rs) - 1)]

\* addToHistory pushing onto the entries itself, not through add().
addToHistory_KeepRedo(s, commandName) ==
  IF config[s].enableStateHistory
  THEN [undo |-> Append(undoStack[s],
                        [before |-> state[s],
                         command |-> IF commandName = NoName THEN "Unspecified"
                                     ELSE commandName]),
        redo |-> redoStack[s]]
  ELSE [undo |-> undoStack[s], redo |-> redoStack[s]]

\* Store.addToHistory: only with a history, under the name or 'Unspecified'.
addToHistory(s, commandName) ==
  IF config[s].enableStateHistory
  THEN HistoryAdd(undoStack[s], redoStack[s], state[s],
                  IF commandName = NoName THEN "Unspecified" ELSE commandName)
  ELSE [undo |-> undoStack[s], redo |-> redoStack[s]]

\* ----------------------------------------------------------------- signal
\* WritableSignal.set notifies its consumers unless the new value equals the
\* old one; the default equality holds for identical primitives only.
SetNotifies(old, new) == ~(old.k # "obj" /\ old = new)

\* The effect reading the state without being subscribed to it.
Schedule_Never(s, notified) == effectDirty' = effectDirty

\* The effect of the constructor exists only with enableLocalStorageSync; a
\* notification schedules one run of it, however many notifications arrive
\* before it runs.
Schedule(s, notified) ==
  effectDirty' = [effectDirty EXCEPT ![s] =
                    @ \/ (config[s].enableLocalStorageSync /\ notified)]

\* Bookkeeping: one more replacement of the state the effect has not seen.
Replaced(s, replaced) ==
  /\ unsaved' = [unsaved EXCEPT ![s] =
                   IF config[s].enableLocalStorageSync /\ replaced
                   THEN (IF @ = 0 THEN 1 ELSE 2) ELSE @]
  /\ UNCHANGED covered

\* ---------------------------------------------------------------- logging
NoLog == [store |-> "", context |-> "", action |-> ""]

\* Store.log / logWithGeneralStore: a console line only with enableLogging.
LogLine(s, context, action) ==
  IF config[s].enableLogging
  THEN [store |-> config[s].name, context |-> context, action |-> action]
  ELSE log

CommandLabel(commandName) ==
  IF commandName = NoName THEN "unspecified command" ELSE commandName

\* The command logging first, as undo() does.
CommandTrace_LogFirst(s) ==
  (IF config[s].enableStateHistory THEN <<"history">> ELSE <<>>)
    \o (IF config[s].enableLogging THEN <<"log">> ELSE <<>>)
    \o <<"state">>

\* The side effects of one command, in the order the method performs them.
CommandTrace(s) ==
  (IF config[s].enableStateHistory THEN <<"history">> ELSE <<>>)
    \o <<"state">>
    \o (IF config[s].enableLogging THEN <<"log">> ELSE <<>>)

\* --------------------------------------------------------------- commands
\* Where the calls stand in the runs `command; undo; redo; redo` and
\* `undo; command; redo` on one store.
Scenario(s, op, changed) ==
  LET same == last.s = s IN
  CASE op \in {"set", "update", "mutate"} ->
         IF redoStack[s] # <<>> THEN "cmdU" ELSE "fresh"
    [] op = "undo" /\ same /\ last.scen \in {"fresh", "cmdU"} /\ changed -> "undo1"
    [] op = "redo" /\ same /\ last.scen = "undo1" -> "redo1"
    [] op = "redo" /\ same /\ last.scen = "redo1" -> "redo2"
    [] op = "redo" /\ same /\ last.scen = "cmdU" -> "redoC"
    [] OTHER -> "other"

\* What set, update and mutate share: addToHistory, the signal write, the log.
Command(s, op, commandName, newVal, newHeap, notified) ==
  /\ config[s].live
  /\ config[s].enableStateHistory => Len(undoStack[s]) < MaxHist
  /\ LET h == addToHistory(s, commandName) IN
       /\ undoStack' = [undoStack EXCEPT ![s] = h.undo]
       /\ redoStack' = [redoStack EXCEPT ![s] = h.redo]
  /\ state' = [state EXCEPT ![s] = newVal]
  /\ heap' = Collect(newHeap, Roots(config, state', undoStack', redoStack'))
  /\ Schedule(s, notified)
  /\ Replaced(s, notified)
  /\ log' = LogLine(s, "Command", CommandLabel(commandName))
  /\ trace' = [trace EXCEPT ![s] = CommandTrace(s)]
  /\ expect' = [expect EXCEPT ![s] =
                  IF config[s].enableStateHistory
                  THEN Append(@, Content(state[s]))
                  ELSE @]
  /\ last' = [op |-> op, s |-> s, pre |-> Content(state[s]),
              scen |-> Scenario(s, op, TRUE)]
  /\ UNCHANGED <<config, storage, busVars>>

\* Store.set(newState, commandName)
Set(s, in, commandName) ==
  /\ in.k = "obj" => CanAlloc(heap)
  /\ LET m == Materialize(heap, in) IN
       Command(s, "set", commandName, m.val, m.heap, SetNotifies(state[s], m.val))

\* The update functions callers pass: pure, returning a new value.
UpdateFns == {"inc", "dec"}
Step(f, n) == IF f = "inc" THEN n + 1 ELSE n - 1
UpdateInput(f, x) == [k |-> x.k, v |-> Step(f, x.v)]

\* Store.update(updateFn, commandName), for the states and functions whose
\* result is a number in range
Update(s, f, commandName) ==
  /\ config[s].live
  /\ state[s].k # "null"
  /\ Step(f, Content(state[s]).v) \in 0..MaxNum
  /\ state[s].k = "obj" => CanAlloc(heap)
  /\ LET m == Materialize(heap, UpdateInput(f, Content(state[s]))) IN
       Command(s, "update", commandName, m.val, m.heap, SetNotifies(state[s], m.val))

\* Store.mutate(mutator, commandName): the mutator writes n into the object
\* the state refers to (it cannot change a number or null); the signal keeps
\* the same value and always notifies.
Mutate(s, n, commandName) ==
  /\ config[s].live
  /\ Command(s, "mutate", commandName, state[s],
             IF state[s].k = "obj" THEN [heap EXCEPT ![state[s].v] = n] ELSE heap,
             TRUE)

\* Store.getHistory(): the entries of the history, none without a history.
getHistory(s) == IF config[s].enableStateHistory THEN undoStack[s] ELSE <<>>

\* ------------------------------------------------------------ undo / redo
\* What undo and redo share once StoreHistory has answered with r: the state
\* is replaced only `if (newState)`.
Restore(s, op, r, did, didNot, disabled) ==
  LET applied == config[s].enableStateHistory /\ r.present /\ Truthy(r.value)
      newVal == IF applied THEN r.value ELSE state[s]
  IN
  /\ config[s].live
  /\ undoStack' = [undoStack EXCEPT ![s] = IF config[s].enableStateHistory THEN r.undo ELSE @]
  /\ redoStack' = [redoStack EXCEPT ![s] = IF config[s].enableStateHistory THEN r.redo ELSE @]
  /\ state' = [state EXCEPT ![s] = newVal]
  /\ heap' = Collect(heap, Roots(config, state', undoStack', redoStack'))
  /\ Schedule(s, applied /\ SetNotifies(state[s], newVal))
  /\ Replaced(s, applied /\ SetNotifies(state[s], newVal))
  /\ log' = LogLine(s, IF op = "undo" THEN "Undo" ELSE "Redo",
                    IF ~config[s].enableStateHistory THEN disabled
                    ELSE IF applied THEN did ELSE didNot)
  /\ trace' = [trace EXCEPT ![s] = <<>>]
  /\ expect' = [expect EXCEPT ![s] =
                  IF op = "undo"
                  THEN (IF @ = <<>> THEN @ ELSE SubSeq(@, 1, Len(@) - 1))
                  ELSE <<>>]
  /\ last' = [op |-> op, s |-> s, pre |-> Content(state[s]),
              scen |-> Scenario(s, op, ContentIn(heap', state'[s]) # Content(state[s]))]
  /\ UNCHANGED <<config, storage, busVars>>

\* Store.undo()
Undo(s) ==
  Restore(s, "undo", HistoryUndo(undoStack[s], redoStack[s], state[s]),
          "Performed an undo action",
          "Attempted to perform an undo action but the state history is empty",
          "Attempted to perform an undo action, but enableStateHistory is not active")

\* Store.redo()
Redo(s) ==
  Restore(s, "redo", HistoryRedo(undoStack[s], redoStack[s], state[s]),
          "Performed a redo action",
          "Attempted to perform a redo action, but the prior action was not an undo action",
          "Attempted to perform a redo action, but enableStateHistory is not active")

\* --------------------------------------------------------------- mediator
Events == {"added", "removed"}
Payloads == {1, 2}

\* StoreBase's constructor making a Mediator whenever events are enabled.
StoreBase_Always(enableEvents) ==
  IF enableEvents THEN mediators + 1 ELSE mediators

\* StoreBase's constructor: a Mediator is made when events are enabled and
\* none exists yet.
StoreBase(enableEvents) ==
  IF enableEvents /\ mediators = 0 THEN mediators + 1 ELSE mediators

\* StoreBase.mediator: the getter makes the Mediator when none exists yet.
MediatorGetter == IF mediators = 0 THEN mediators + 1 ELSE mediators

\* Mediator.register: the registration is appended to its event's list.
MediatorRegister(regs, event, source) ==
  Append(regs, [event |-> event, source |-> source, received |-> <<>>])

\* Mediator.publish: every handler registered for the event is invoked with
\* the payload, in registration order.
MediatorPublish(regs, event, payload) ==
  [i \in 1..Len(regs) |->
     IF regs[i].event = event
     THEN [regs[i] EXCEPT !.received = Append(@, payload)]
     ELSE regs[i]]

\* Mediator.replay: every registration of the source has its handler invoked
\* once per payload its event's ledger holds, in publish order.
MediatorReplay(regs, led, source) ==
  [i \in 1..Len(regs) |->
     IF regs[i].source = source
     THEN [regs[i] EXCEPT !.received = @ \o led[regs[i].event]]
     ELSE regs[i]]

\* registerHandler replaying before the handler is registered.
Registered_ReplayFirst(s, event, withReplay) ==
  LET source == config[s].name IN
  MediatorRegister(IF withReplay THEN MediatorReplay(registrations, ledger, source)
                   ELSE registrations,
                   event, source)

\* The body of Store.registerHandler: register under the store's name, then
\* replay for that source when asked to.
Registered(s, event, withReplay) ==
  LET source == config[s].name
      regs == MediatorRegister(registrations, event, source)
  IN IF withReplay THEN MediatorReplay(regs, ledger, source) ELSE regs

\* Store.registerHandler(event, handler, withReplay)
RegisterHandler(s, event, withReplay) ==
  /\ config[s].live
  /\ Len(registrations) < MaxRegs
  /\ mediators' = MediatorGetter
  /\ registrations' = Registered(s, event, withReplay)
  /\ log' = LogLine(s, "Init", "Register handler for event")
  /\ last' = [op |-> IF withReplay THEN "registerReplay" ELSE "register",
              s |-> s, pre |-> Content(state[s]), scen |-> "other"]
  /\ UNCHANGED <<config, state, heap, undoStack, redoStack, storage, effectDirty,
                 trace, expect, unsaved, covered, ledger, call>>

PublishedSoFar == Len(ledger["added"]) + Len(ledger["removed"])

\* Store.publish(event, payload)
Publish(s, event, payload) ==
  /\ config[s].live
  /\ PublishedSoFar < MaxPub
  /\ mediators' = MediatorGetter
  /\ registrations' = MediatorPublish(registrations, event, payload)
  /\ ledger' = [ledger EXCEPT ![event] = Append(@, payload)]
  /\ log' = IF \E i \in 1..Len(registrations) : registrations[i].event = event
            THEN [LogLine(s, "Handler", "Handled Event") EXCEPT
                    !.store = IF config[s].enableLogging
                              THEN Top(SelectSeq(registrations,
                                                 LAMBDA r : r.event = event)).source
                              ELSE @]
            ELSE LogLine(s, "Event", "Publish event")
  /\ last' = [op |-> "publish", s |-> s, pre |-> Content(state[s]), scen |-> "other"]
  /\ UNCHANGED <<config, state, heap, undoStack, redoStack, storage, effectDirty,
                 trace, expect, unsaved, covered, call>>

\* ---------------------------------------------------- effects and queries
\* A call that has not invoked its function has handed it nothing (store 0)
\* and has no result.
NoCall == [kind |-> "", withInjectionContext |-> FALSE, invoked |-> 0,
           inContext |-> FALSE, threw |-> "none",
           store |-> 0, arg |-> 0, result |-> 0]

\* The effect callers run: func: (store, x) => x.
EffectArgs == 0..1
EffectFunc(s, arg) == arg

\* Two plugins a program declares, both with a postprocessEffect: P1 (the
\* higher precedence) adds one to the result, P2 doubles it.
PostprocessP1(result) == result + 1
PostprocessP2(result) == 2 * result

\* this.injector: injected only with enableEffectsAndQueries.
Injector(s) == config[s].enableEffectsAndQueries

\* runEffect handing the injector to the framework whenever the effect asks
\* for the context, as runQuery does.
RunEffect_Unguarded(s, withInjectionContext, arg) ==
  /\ config[s].live
  /\ call' = IF withInjectionContext /\ ~Injector(s)
             THEN [NoCall EXCEPT !.kind = "effect", !.withInjectionContext = TRUE,
                                 !.threw = "TypeError"]
             ELSE [kind |-> "effect", withInjectionContext |-> withInjectionContext,
                   invoked |-> 1, inContext |-> withInjectionContext,
                   threw |-> "none", store |-> s, arg |-> arg,
                   result |-> EffectFunc(s, arg)]
  /\ log' = LogLine(s, "Effect", "Running effect")
  /\ last' = [op |-> "runEffect", s |-> s, pre |-> Content(state[s]), scen |-> "other"]
  /\ UNCHANGED <<config, state, heap, undoStack, redoStack, storage, effectDirty,
                 trace, expect, unsaved, covered, mediators, registrations, ledger>>

\* Store.runEffect(effect, ...args): inside the injection context when the
\* effect asks for it and the store has an injector, directly otherwise.
RunEffect(s, withInjectionContext, arg) ==
  /\ config[s].live
  /\ call' = [kind |-> "effect", withInjectionContext |-> withInjectionContext,
              invoked |-> 1,
              inContext |-> withInjectionContext /\ Injector(s), threw |-> "none",
              store |-> s, arg |-> arg, result |-> EffectFunc(s, arg)]
  /\ log' = LogLine(s, "Effect", "Running effect")
  /\ last' = [op |-> "runEffect", s |-> s, pre |-> Content(state[s]), scen |-> "other"]
  /\ UNCHANGED <<config, state, heap, undoStack, redoStack, storage, effectDirty,
                 trace, expect, unsaved, covered, mediators, registrations, ledger>>

\* How runInInjectionContext(this.injector!, fn) can end for a query that
\* declares nStores stores.  With an injector the stores are resolved and the
\* query is invoked.  Without one the `!` checks nothing at run time and the
\* framework gets undefined: it rejects it (TypeError), or it runs fn, where
\* the first inject() fails (NG0203) and a query without stores is invoked.
QueryOutcomes(s, nStores) ==
  IF Injector(s)
  THEN {[NoCall EXCEPT !.kind = "query", !.invoked = 1, !.inContext = TRUE]}
  ELSE {[NoCall EXCEPT !.kind = "query", !.threw = "TypeError"]}
       \cup (IF nStores > 0
             THEN {[NoCall EXCEPT !.kind = "query", !.threw = "NG0203"]}
             ELSE {[NoCall EXCEPT !.kind = "query", !.invoked = 1]})

\* Store.runQuery(storeQuery, ...args)
RunQuery(s, nStores) ==
  /\ config[s].live
  /\ call' \in QueryOutcomes(s, nStores)
  /\ last' = [op |-> "runQuery", s |-> s, pre |-> Content(state[s]), scen |-> "other"]
  /\ UNCHANGED <<config, state, heap, undoStack, redoStack, storage, effectDirty,
                 trace, log, expect, unsaved, covered, mediators, registrations, ledger>>

\* ------------------------------------------------------------ persistence
\* saveToStorage: the state as JSON text (a copy by value) under the key.
Encode(h, x) == [present |-> TRUE, json |-> ContentIn(h, x)]

\* loadFromStorage: the entry parsed, absent when there is none.
LoadFromStorage(name) == storage[name]

\* `persistedState ?? config.initialState`
InitialChoice(persisted, initial) ==
  IF Nullish(persisted.present, persisted.json) THEN "initial" ELSE "persisted"

\* new Store(config)
Construct(s, name, in, flags) ==
  /\ ~config[s].live
  /\ CanAlloc(heap)
  /\ mediators' = StoreBase(flags.enableEvents)
  /\ LET init == Materialize(heap, in)
         logging == flags.enableLogging
         sync == flags.enableLocalStorageSync
         persisted == LoadFromStorage(name)
         fromStorage == sync /\ InitialChoice(persisted, init.val) = "persisted"
         loaded == IF fromStorage THEN Materialize(init.heap, persisted.json) ELSE init
     IN
     /\ fromStorage => \E r \in Refs : init.heap[r] = Free
     /\ config' = [config EXCEPT ![s] = Config(name, init.val, flags)]
     /\ state' = [state EXCEPT ![s] = loaded.val]
     /\ heap' = Collect(loaded.heap, Roots(config', state', undoStack, redoStack))
     /\ effectDirty' = [effectDirty EXCEPT ![s] = sync]
     /\ log' = IF ~logging THEN log
               ELSE [store |-> name, context |-> "Init",
                     action |-> IF ~sync THEN "Store initialized"
                                ELSE IF fromStorage /\ Truthy(loaded.val)
                                     THEN "Store initialized from local storage"
                                     ELSE "local storage is empty; store initialized using configured initial state"]
     /\ last' = [op |-> "construct", s |-> s, pre |-> ContentIn(heap', state'[s]),
                 scen |-> "fresh"]
  /\ UNCHANGED <<undoStack, redoStack, storage, trace, expect, unsaved, covered,
                 registrations, ledger, call>>

\* One run of the effect registered by the constructor:
\* saveToStorage(this.config.name, this._state())
Flush(s) ==
  /\ config[s].live
  /\ effectDirty[s]
  /\ storage' = [storage EXCEPT ![config[s].name] = Encode(heap, state[s])]
  /\ effectDirty' = [effectDirty EXCEPT ![s] = FALSE]
  /\ trace' = [trace EXCEPT ![s] = IF @ = <<>> THEN @ ELSE Append(@, "write")]
  /\ unsaved' = [unsaved EXCEPT ![s] = 0]
  /\ covered' = [covered EXCEPT ![s] = unsaved[s]]
  /\ UNCHANGED <<config, state, heap, undoStack, redoStack, log, expect, last, busVars>>

\* Store.clearPersistence(): clearLocalStorage(this.config.name)
ClearPersistence(s) ==
  /\ config[s].live
  /\ storage' = [storage EXCEPT ![config[s].name] = Absent]
  /\ last' = [op |-> "clear", s |-> s, pre |-> Content(state[s]), scen |-> "other"]
  /\ UNCHANGED <<config, state, heap, undoStack, redoStack, effectDirty, trace, log,
                 expect, unsaved, covered, busVars>>

\* ------------------------------------------------------------------- init
Init ==
  /\ config = [s \in Stores |-> NoConfig]
  /\ state = [s \in Stores |-> Null]
  /\ heap = [r \in Refs |-> Free]
  /\ undoStack = [s \in Stores |-> <<>>]
  /\ redoStack = [s \in Stores |-> <<>>]
  /\ storage = [n \in StoreNames |-> Absent]
  /\ effectDirty = [s \in Stores |-> FALSE]
  /\ trace = [s \in Stores |-> <<>>]
  /\ log = NoLog
  /\ expect = [s \in Stores |-> <<>>]
  /\ unsaved = [s \in Stores |-> 0]
  /\ covered = [s \in Stores |-> 0]
  /\ mediators = 0
  /\ registrations = <<>>
  /\ ledger = [e \in Events |-> <<>>]
  /\ call = NoCall
  /\ last = [op |-> "none", s |-> 1, pre |-> Null, scen |-> "other"]

CommandNames == {NoName, "inc"}
PrimInputs == {Num(0), Num(1), Null}
ObjInputs == {Obj(0), Obj(1)}
AnyInputs == PrimInputs \cup ObjInputs

\* ------------------- a store with a state history holding numbers or null
HistoryNext ==
  \/ \E in \in PrimInputs : Construct(1, "counter", in, Flags(FALSE, TRUE, FALSE, FALSE, FALSE))
  \/ \E in \in PrimInputs : Set(1, in, NoName)
  \/ \E f \in UpdateFns : Update(1, f, NoName)
  \/ Undo(1)
  \/ Redo(1)

HistorySpec == Init /\ [][HistoryNext]_vars

\* --------- two stores that handle events, the first made with enableEvents
EventNext ==
  \/ Construct(1, "counter", Num(0), Flags(FALSE, FALSE, FALSE, TRUE, FALSE))
  \/ Construct(2, "other", Num(0), NoFlags)
  \/ \E s \in Stores, e \in Events, r \in BOOLEAN : RegisterHandler(s, e, r)
  \/ \E e \in Events, p \in Payloads : Publish(1, e, p)

EventSpec == Init /\ [][EventNext]_vars

\* ---- two stores that run effects and queries, only the first made with
\* enableEffectsAndQueries
QueryNext ==
  \/ \E in \in PrimInputs :
       Construct(1, "counter", in, Flags(FALSE, FALSE, FALSE, FALSE, TRUE))
  \/ \E in \in PrimInputs : Construct(2, "other", in, NoFlags)
  \/ \E s \in Stores, in \in PrimInputs : Set(s, in, NoName)
  \/ \E s \in Stores, c \in BOOLEAN, a \in EffectArgs : RunEffect(s, c, a)
  \/ \E s \in Stores, n \in 0..1 : RunQuery(s, n)

QuerySpec == Init /\ [][QueryNext]_vars

\* ------------------------------ a store with a state history holding objects
ObjectNext ==
  \/ \E in \in ObjInputs : Construct(1, "counter", in, Flags(FALSE, TRUE, FALSE, FALSE, FALSE))
  \/ \E in \in ObjInputs : Set(1, in, NoName)
  \/ \E f \in UpdateFns : Update(1, f, NoName)
  \/ \E n \in 0..1 : Mutate(1, n, NoName)
  \/ Undo(1)
  \/ Redo(1)

ObjectSpec == Init /\ [][ObjectNext]_vars

\* ------- a store with history and logging, synchronised with local storage
SyncInputs == {Num(0), Num(1), Obj(1)}
Shallow(s) == Len(undoStack[s]) < MaxSyncHist

SyncNext ==
  \/ \E in \in SyncInputs : Construct(1, "counter", in, Flags(TRUE, TRUE, TRUE, FALSE, FALSE))
  \/ \E in \in SyncInputs : Shallow(1) /\ Set(1, in, NoName)
  \/ Shallow(1) /\ Update(1, "inc", NoName)
  \/ Shallow(1) /\ Mutate(1, 0, NoName)
  \/ Undo(1)
  \/ Redo(1)
  \/ Flush(1)

SyncSpec == Init /\ [][SyncNext]_vars

\* ---- two stores of one name synchronised with local storage, the second
\* constructed as the first is after a reload (the same configuration)
ReloadInitial == {Num(0), Obj(0)}
ReloadInputs == {Num(1), Null, Obj(1)}

ReloadNext ==
  \/ \E in \in ReloadInitial : Construct(1, "counter", in, Flags(FALSE, FALSE, TRUE, FALSE, FALSE))
  \/ config[1].live
       /\ Construct(2, "counter", Content(config[1].initialState),
                    Flags(FALSE, FALSE, TRUE, FALSE, FALSE))
  \/ \E in \in ReloadInputs : Set(1, in, NoName)
  \/ Mutate(1, 1, NoName)
  \/ ClearPersistence(1)
  \/ \E s \in Stores : Flush(s)

ReloadSpec == Init /\ [][ReloadNext]_vars

\* ----- the counter of the README with a state history, as a number or as
\* an object holding the number, its commands named or not
CounterInitial == {Num(0), Obj(0)}
CounterInputs == {Num(1), Obj(1)}

CounterNext ==
  \/ \E in \in CounterInitial :
       Construct(1, "counter", in, Flags(FALSE, TRUE, FALSE, FALSE, FALSE))
  \/ \E in \in CounterInputs : Set(1, in, NoName)
  \/ \E f \in UpdateFns : Update(1, f, "inc")
  \/ \E c \in CommandNames : Mutate(1, 1, c)
  \/ Undo(1)
  \/ Redo(1)

CounterSpec == Init /\ [][CounterNext]_vars

\* ---- a store made without any optional flag, next to a store of the same
\* name that is synchronised with local storage
Plain == 2
PlainInitial == {Num(0), Obj(0)}

PlainNext ==
  \/ Construct(1, "counter", Num(0), Flags(FALSE, FALSE, TRUE, FALSE, FALSE))
  \/ \E in \in PlainInitial : Construct(Plain, "counter", in, NoFlags)
  \/ Set(1, Num(1), NoName)
  \/ Flush(1)
  \/ \E in \in AnyInputs : Set(Plain, in, NoName)
  \/ \E f \in UpdateFns : Update(Plain, f, NoName)
  \/ Mutate(Plain, 1, NoName)
  \/ Undo(Plain)
  \/ Redo(Plain)
  \/ ClearPersistence(Plain)

PlainSpec == Init /\ [][PlainNext]_vars

\* ------------------------------------------------------------------ claims
Commands == {"set", "update", "mutate"}
History(s) == config[s].live /\ config[s].enableStateHistory

\* C1: with history enabled, each undo() after a run of set/update calls
\* puts back the state that existed just before the latest call not yet
\* undone (strict LIFO); stated here for the stores of numbers, 0 included.
C1_UndoStepsBackLifo ==
  [][\A s \in Stores :
       (History(s) /\ expect[s] # <<>> /\ Top(expect[s]).k = "num"
          /\ state[s].k = "num" /\ Undo(s))
         => ContentIn(heap', state'[s]) = Top(expect[s])]_vars

\* C2: with history enabled, undo() after a mutate() that changed the state
\* in place restores the value the state had before the mutate.
C2_UndoAfterMutateRestores ==
  [][\A s \in Stores :
       (History(s) /\ last.op = "mutate" /\ last.s = s
          /\ last.pre # Content(state[s]) /\ Undo(s))
         => ContentIn(heap', state'[s]) = last.pre]_vars

\* C3: with history enabled, redo() right after a state-changing undo()
\* restores the state that was current before that undo, for every state
\* value (stated here for the numbers); a second redo() directly after it
\* changes nothing.
C3_RedoRestoresUndone ==
  [][\A s \in Stores :
       /\ (History(s) /\ last.scen = "undo1" /\ last.s = s
             /\ last.pre.k = "num" /\ state[s].k = "num" /\ Redo(s))
            => ContentIn(heap', state'[s]) = last.pre
       /\ (History(s) /\ last.scen = "redo1" /\ last.s = s /\ Redo(s))
            => ContentIn(heap', state'[s]) = Content(state[s])]_vars

\* C4: with history enabled, a set, update or mutate made while undone
\* entries exist empties the redo-stack, and a redo() that follows leaves
\* the state equal to what that command produced.
C4_CommandClearsRedo ==
  /\ (last.op \in Commands /\ History(last.s)) => redoStack[last.s] = <<>>
  /\ (last.scen = "redoC" /\ History(last.s))
       => Content(state[last.s]) = last.pre /\ redoStack[last.s] = <<>>

\* undo; mutate; redo has run on a store with a history.
C4_Witness ==
  last.scen = "redoC" /\ History(last.s) /\ undoStack[last.s] # <<>>

Synced(s) == config[s].live /\ config[s].enableLocalStorageSync
Constructs(s) == ~config[s].live /\ config'[s].live
InOrder(seq, rank) ==
  \A i, j \in 1..Len(seq) : i < j => rank[seq[i]] < rank[seq[j]]

\* C5 (as claimed): with persistence enabled every state replacement gets a
\* write of its own: no write stands for two replacements made before the
\* effect ran.
C5_OneWritePerReplacement == \A s \in Stores : covered[s] <= 1

\* C5 (amended): with persistence enabled every state replacement schedules
\* a run of the store's effect; each run makes one write, of the state that
\* is current when it runs, under the store's name; nothing else writes, so
\* replacements made before a run share its single write.
C5_WritesFollowEffect ==
  [][\A s \in Stores :
       /\ (Synced(s) /\ ContentIn(heap', state'[s]) # Content(state[s]))
            => effectDirty'[s]
       /\ Flush(s) => /\ storage'[config[s].name] = Encode(heap, state[s])
                      /\ ~effectDirty'[s]
       /\ storage' # storage => \E r \in Stores : Flush(r)]_vars

\* One write has stood for two replacements and carries the latest state.
C5_Witness ==
  /\ covered[1] = 2 /\ ~effectDirty[1]
  /\ storage[config[1].name] = Encode(heap, state[1])

\* C6: a store of the same name constructed after clearPersistence() starts
\* from initialState, also when the save scheduled by an earlier set had not
\* run at the time of the clear.
C6_ClearThenReload ==
  [][(last.op = "clear" /\ Constructs(2))
       => ContentIn(heap', state'[2]) = ContentIn(heap', config'[2].initialState)]_vars

\* C7: over an empty backend a store starts with initialState; once
\* set(newValue) has been called and written, a new store of the same name
\* starts with newValue, for every newValue.
C7_ReloadYieldsSetValue ==
  [][Constructs(2) =>
       /\ ~storage[config'[2].name].present
            => ContentIn(heap', state'[2]) = ContentIn(heap', config'[2].initialState)
       /\ (last.op = "set" /\ last.s = 1 /\ Synced(1)
             /\ storage[config[1].name] = Encode(heap, state[1]))
            => ContentIn(heap', state'[2]) = Content(state[1])]_vars

ClaimedRank == [history |-> 1, state |-> 2, write |-> 3, log |-> 4]
ActualRank == [history |-> 1, state |-> 2, log |-> 3, write |-> 4]

\* C8 (as claimed): the side effects of one command come in the order
\* history capture, state replacement, persistence write, log entry.
C8_WriteBeforeLog == \A s \in Stores : InOrder(trace[s], ClaimedRank)

\* C8 (amended): the side effects of one command come in the order history
\* capture, state replacement, log entry; the persistence write of the new
\* state is made by the effect after the call, so after the log entry.
C8_LogBeforeWrite ==
  \A s \in Stores :
    /\ InOrder(trace[s], ActualRank)
    /\ trace[s] # <<>> =>
         /\ \E i \in 1..Len(trace[s]) : trace[s][i] = "state"
         /\ config[s].enableStateHistory => trace[s][1] = "history"
         /\ config[s].enableLogging => \E i \in 1..Len(trace[s]) : trace[s][i] = "log"

\* A command has captured, replaced, logged, and its write has followed.
C8_Witness == trace[1] = <<"history", "state", "log", "write">>

\* C9: registerHandler(e, h, withReplay=true) has invoked h once for each
\* earlier publish(e, payload), in publish order, by the time it returns;
\* with withReplay=false h has not been invoked for any earlier publication.
C9_ReplayOnRegistration ==
  /\ last.op = "registerReplay"
       => Top(registrations).received = ledger[Top(registrations).event]
  /\ last.op = "register" => Top(registrations).received = <<>>

\* A handler registered with replay has received two earlier payloads of
\* its event, in the order they were published.
C9_Witness ==
  /\ last.op = "registerReplay"
  /\ Top(registrations).received = <<2, 1>>
  /\ ledger[Top(registrations).event] = <<2, 1>>

\* C10: runQuery on a store without an execution context fails with a
\* ConfigurationError, the query function not invoked.
C10_RunQueryNeedsContext ==
  (last.op = "runQuery" /\ ~Injector(last.s))
    => call.threw = "ConfigurationError" /\ call.invoked = 0

\* Store s makes a set, update or mutate call that passes commandName.
Called(s, commandName) ==
  \/ \E in \in AnyInputs : Set(s, in, commandName)
  \/ \E f \in UpdateFns : Update(s, f, commandName)
  \/ \E n \in 0..MaxNum : Mutate(s, n, commandName)

Unnamed(s) == Called(s, NoName)

\* C11: with history enabled, the entry recorded for a set, update or mutate
\* called without a commandName carries the label "unspecified command", the
\* default label of the call's log entry.
C11_DefaultHistoryLabel ==
  [][\A s \in Stores :
       (History(s) /\ Unnamed(s))
         => Top(undoStack'[s]).command = CommandLabel(NoName)]_vars

\* C12: with P1 (precedence 10) and P2 (precedence 5) both implementing
\* postprocessEffect, runEffect returns P2.postprocessEffect applied to
\* P1.postprocessEffect applied to what effect.func returned.
C12_EffectResultPostprocessed ==
  last.op = "runEffect"
    => call.result = PostprocessP2(PostprocessP1(EffectFunc(call.store, call.arg)))

\* What a caller reads in the entries, under heap h.
Entries(h, entries) ==
  [i \in 1..Len(entries) |->
     [before |-> ContentIn(h, entries[i].before), command |-> entries[i].command]]

Befores(h, entries) == [i \in 1..Len(entries) |-> ContentIn(h, entries[i].before)]

Changes(s) == ContentIn(heap', state'[s]) # Content(state[s])

\* C13: getHistory() lists the undo-stack oldest first: each set, update or
\* mutate call appends one entry holding the state before the call and the
\* call's command label, the earlier entries staying as they were; each
\* state-changing undo removes the last entry and each state-changing redo
\* appends one.
C13_HistoryOldestFirst ==
  [][\A s \in Stores : History(s) =>
       /\ \A c \in CommandNames :
            Called(s, c) =>
              /\ Befores(heap', getHistory(s)')
                   = Append(Befores(heap, getHistory(s)), Content(state[s]))
              /\ c # NoName =>
                   Entries(heap', getHistory(s)')
                     = Append(Entries(heap, getHistory(s)),
                              [before |-> Content(state[s]), command |-> c])
       /\ (Undo(s) /\ Changes(s)) =>
            Entries(heap', getHistory(s)')
              = SubSeq(Entries(heap, getHistory(s)), 1, Len(getHistory(s)) - 1)
       /\ (Redo(s) /\ Changes(s)) =>
            SubSeq(Entries(heap', getHistory(s)'), 1, Len(getHistory(s)))
              = Entries(heap, getHistory(s))
              /\ Len(getHistory(s)') = Len(getHistory(s)) + 1]_vars

\* C14: on the store created without enableStateHistory, whatever set,
\* update and mutate calls came before, undo() and redo() return having left
\* the state as it was, and getHistory() is empty at all times.
C14_NoHistoryNoUndo ==
  [][/\ config'[Plain].live => getHistory(Plain)' = <<>>
     /\ (Undo(Plain) \/ Redo(Plain)) =>
          /\ state'[Plain] = state[Plain]
          /\ ~Changes(Plain)
          /\ last'.op \in {"undo", "redo"}]_vars

\* undo() has returned on the store without a history, its state no longer
\* the initial one.
C14_Witness ==
  /\ last.op = "undo" /\ last.s = Plain
  /\ ~config[Plain].enableStateHistory
  /\ Content(state[Plain]) # Content(config[Plain].initialState)

MediatorAccesses == {"register", "registerReplay", "publish"}
IsPrefix(a, b) == Len(a) <= Len(b) /\ SubSeq(b, 1, Len(a)) = a

\* C15: at most one Mediator is ever made; it is made on first need, the
\* construction of a store with enableEvents or the first access from any
\* store, and not before; once made it stays, so that every registration and
\* every published payload is kept, whichever store accesses it later.
C15_OneMediator ==
  /\ [](/\ mediators <= 1
        /\ mediators = 1 <=>
             \/ \E s \in Stores : config[s].live /\ config[s].enableEvents
             \/ last.op \in MediatorAccesses
             \/ registrations # <<>>
             \/ PublishedSoFar > 0)
  /\ [][/\ mediators' >= mediators
        /\ Len(registrations') >= Len(registrations)
        /\ \A i \in 1..Len(registrations) :
             /\ registrations'[i].event = registrations[i].event
             /\ registrations'[i].source = registrations[i].source
             /\ IsPrefix(registrations[i].received, registrations'[i].received)
        /\ \A e \in Events : IsPrefix(ledger[e], ledger'[e])]_vars

\* The one mediator holds a registration of each store, made before and
\* after the store with enableEvents was constructed, and a publication.
C15_Witness ==
  /\ mediators = 1
  /\ config[1].live /\ config[1].enableEvents
  /\ config[2].live /\ ~config[2].enableEvents
  /\ Len(registrations) = 2
  /\ registrations[1].source = "other" /\ registrations[2].source = "counter"
  /\ registrations[1].received # <<>>

StacksKept(s) == undoStack'[s] = undoStack[s] /\ redoStack'[s] = redoStack[s]

\* C16: with history enabled, undo() on an empty undo-stack and redo() on an
\* empty redo-stack leave state and both stacks as they were; conversely an
\* undo() or redo() that leaves the state unchanged has left both stacks
\* unchanged (stated here for a state that is a number and a top entry
\* holding another number, so that an unchanged state is not the entry's).
C16_UnchangedStateUnchangedStacks ==
  [][\A s \in Stores : History(s) =>
       /\ (Undo(s) /\ undoStack[s] = <<>>) => ~Changes(s) /\ StacksKept(s)
       /\ (Redo(s) /\ redoStack[s] = <<>>) => ~Changes(s) /\ StacksKept(s)
       /\ (Undo(s) /\ undoStack[s] # <<>> /\ ~Changes(s)
             /\ Top(undoStack[s]).before.k = "num" /\ state[s].k = "num"
             /\ Top(undoStack[s]).before # state[s])
            => StacksKept(s)
       /\ (Redo(s) /\ redoStack[s] # <<>> /\ ~Changes(s)
             /\ Top(redoStack[s]).before.k = "num" /\ state[s].k = "num"
             /\ Top(redoStack[s]).before # state[s])
            => StacksKept(s)]_vars

\* C17: runEffect(effect, ...args) invokes effect.func once, with the store
\* and the given args, and returns; the call runs inside the injection
\* context exactly when the effect asks for it and the store has an injector,
\* and outside any context otherwise, without failing.
C17_EffectRunsOnce ==
  /\ [](last.op = "runEffect" =>
          /\ call.kind = "effect" /\ call.invoked = 1 /\ call.threw = "none"
          /\ call.store = last.s
          /\ call.result = EffectFunc(call.store, call.arg)
          /\ call.inContext = (call.withInjectionContext /\ Injector(last.s)))
  /\ [][\A s \in Stores, c \in BOOLEAN, a \in EffectArgs :
          RunEffect(s, c, a) =>
            /\ call'.store = s /\ call'.arg = a
            /\ c /\ Injector(s) => call'.inContext]_vars

\* An effect asking for the context has run, outside any context, on the
\* store that has no injector.
C17_Witness ==
  /\ last.op = "runEffect" /\ ~Injector(last.s)
  /\ call.withInjectionContext /\ ~call.inContext
  /\ call.invoked = 1 /\ call.arg = 1 /\ call.result = 1

\* C18: whatever registerHandler (with or without replay) and publish calls
\* the stores make, each registered handler has been invoked at most once
\* per published payload of its event; a further registration with replay
\* by the same store does not invoke its earlier handlers again.
C18_AtMostOncePerPayload ==
  \A i \in 1..Len(registrations) :
    Len(registrations[i].received) <= Len(ledger[registrations[i].event])

\* C19: with history enabled, after any set, update, undo and redo calls the
\* state of a store whose undo-stack is empty is the state the store was
\* constructed with (stated here for the stores of numbers).
C19_EmptyHistoryIsInitialState ==
  \A s \in Stores :
    (History(s) /\ getHistory(s) = <<>>
       /\ config[s].initialState.k = "num" /\ state[s].k = "num")
      => Content(state[s]) = Content(config[s].initialState)

\* An operation of store s other than its construction.
Operates(s) ==
  \/ Unnamed(s)
  \/ Undo(s)
  \/ Redo(s)
  \/ ClearPersistence(s)

\* C20: a store created without enableLocalStorageSync leaves every entry of
\* local storage as it is, whatever it does (construction, set, update,
\* mutate, undo, redo, clearPersistence), and takes nothing from it: it
\* starts from its initialState.
C20_UnsyncedLeavesStorage ==
  [][\A s \in Stores :
       /\ (Constructs(s) /\ ~config'[s].enableLocalStorageSync) =>
            /\ storage' = storage
            /\ ContentIn(heap', state'[s]) = ContentIn(heap', config'[s].initialState)
       /\ (config[s].live /\ ~config[s].enableLocalStorageSync /\ Operates(s)) =>
            storage' = storage]_vars

====
